---------------------------- MODULE Spec2Model ----------------------------
(***************************************************************************)
(* Model of datasets/biaobei48000.py: the transcription parser parse_trn,  *)
(* the per-utterance processor _process_utterance and the dispatch routine *)
(* build_from_path that farms the units out to a ProcessPoolExecutor.      *)
(*                                                                         *)
(* Text is modelled as sequences of character tokens; "SP", "TAB" and "NL" *)
(* stand for the space, tab and newline characters.                        *)
(***************************************************************************)
EXTENDS Integers, Sequences, FiniteSets, TLC

VARIABLES
  file,         \* lines of the transcription file (without their newline)
  pc,           \* position of the main process
  num_workers,  \* build_from_path's num_workers argument
  trn_ids,      \* the list returned by parse_trn
  index,        \* build_from_path's running index
  i,            \* position of the "for idx, pinyin in trn_ids" loop
  futures,      \* the submitted units, in submission order, with their state
  out_dir,      \* the files written into out_dir, each with the unit that wrote it
  cpos,         \* position of the collecting comprehension in futures
  returned,     \* the list under construction by the return statement
  overtaken     \* history: some unit ended while an earlier-submitted one had not

vars == <<file, pc, num_workers, trn_ids, index, i, futures, out_dir, cpos, returned,
         overtaken>>

-----------------------------------------------------------------------------
(* Bounds of the model *)

MaxLines == 5

MaxUtts == 3

MaxWorkers == 2

(* hp.max_frame_num, the configured frame limit *)
MaxFrameNum == 1

-----------------------------------------------------------------------------
(* Text helpers: str.strip, str.split, file.readline, '%05d' % index *)

Whitespace == {"SP", "TAB", "NL"}

RECURSIVE LStrip(_)
LStrip(s) ==
  IF s = <<>> THEN s
  ELSE IF Head(s) \in Whitespace THEN LStrip(Tail(s)) ELSE s

RECURSIVE RStrip(_)
RStrip(s) ==
  IF s = <<>> THEN s
  ELSE IF s[Len(s)] \in Whitespace THEN RStrip(SubSeq(s, 1, Len(s) - 1)) ELSE s

Strip_Right(s) == RStrip(s)

Strip(s) == RStrip(LStrip(s))

RECURSIVE SplitTab0(_)
SplitTab0(s) ==
  IF s = <<>> THEN <<>>
  ELSE IF Head(s) = "TAB" THEN <<>>
  ELSE <<Head(s)>> \o SplitTab0(Tail(s))

(* f.readline() with pos - 1 lines already consumed: the line with its     *)
(* newline, or the empty string at end of file.                            *)
ReadLine(f, pos) == IF pos <= Len(f) THEN f[pos] \o <<"NL">> ELSE <<>>

DigitChar(d) == <<"0", "1", "2", "3", "4", "5", "6", "7", "8", "9">>[d + 1]

RECURSIVE Digits(_)
Digits(n) ==
  IF n < 10 THEN <<DigitChar(n)>> ELSE Digits(n \div 10) \o <<DigitChar(n % 10)>>

RECURSIVE ZeroPad(_, _)
ZeroPad(d, width) == IF Len(d) >= width THEN d ELSE ZeroPad(<<"0">> \o d, width)

Format05d(n) == ZeroPad(Digits(n), 5)

SpecName(k) == <<"biaobei48000-spec-">> \o Format05d(k) \o <<".npy">>

MelName(k) == <<"biaobei48000-mel-">> \o Format05d(k) \o <<".npy">>

WavFile(idx) == <<"Wave">> \o idx \o <<".wav">>

-----------------------------------------------------------------------------
(* parse_trn *)

NextLine_Unstripped(f, pos) == ReadLine(f, pos)

(* line = f.readline().strip() *)
NextLine(f, pos) == Strip(ReadLine(f, pos))

(* The while loop, entered with pos - 1 lines consumed *)
RECURSIVE ParseLoop(_, _, _, _)
ParseLoop(f, pos, line, trns) ==
  IF line = <<>> THEN trns
  ELSE LET idx    == SplitTab0(line)
           pinyin == Strip(ReadLine(f, pos))
           next   == NextLine(f, pos + 1)
       IN  ParseLoop(f, pos + 2, next, Append(trns, <<idx, pinyin>>))

parse_trn(f) == ParseLoop(f, 2, NextLine(f, 1), <<>>)

-----------------------------------------------------------------------------
(* Inputs *)

LineSet ==
  { <<>>,
    <<"SP">>,
    <<"a", "TAB", "b">>,
    <<"b", "TAB", "a", "TAB", "b">>,
    <<"SP", "a", "TAB", "b">>,
    <<"TAB", "a", "SP", "b">>,
    <<"a", "b">>,
    <<"a", "SP", "TAB", "b">> }

ParseFiles == UNION { [1..n -> LineSet] : n \in 0..MaxLines }

Rep(c, n) == [j \in 1..n |-> c]

(* A transcription file of n utterances in the format of the docstring:    *)
(* utterance k has identifier a^k and pronunciation b^k.                   *)
CorpusFile(n) ==
  [j \in 1..(2 * n) |->
     IF j % 2 = 1 THEN Rep("a", (j + 1) \div 2) \o <<"TAB", "b", "SP", "a">>
     ELSE <<"TAB">> \o Rep("b", j \div 2)]

Frames == 1..(MaxFrameNum + 1)

-----------------------------------------------------------------------------
(* Results of a unit of work *)

Pending == [kind |-> "pending"]

None == [kind |-> "None"]

Raised(where) == [kind |-> "exception", at |-> where]

Record(spectrogram_filename, mel_filename, n_frames, pinyin) ==
  [kind |-> "record", spec |-> spectrogram_filename, mel |-> mel_filename,
   n_frames |-> n_frames, pinyin |-> pinyin]

Finished(k) == futures[k].result.kind # "pending"

Running(k) == futures[k].pc \in {"save_spec", "save_mel"}

Exists(name) == \E w \in out_dir : w.name = name

-----------------------------------------------------------------------------
(* Initial states *)

Idle ==
  /\ trn_ids = <<>>
  /\ index = 1
  /\ i = 1
  /\ futures = <<>>
  /\ out_dir = {}
  /\ cpos = 1
  /\ returned = <<>>
  /\ overtaken = FALSE

(* A call build_from_path(in_dir, out_dir, num_workers) on a corpus of up  *)
(* to MaxUtts utterances and an empty output directory.                    *)
Init ==
  /\ file \in { CorpusFile(n) : n \in 0..MaxUtts }
  /\ num_workers \in 1..MaxWorkers
  /\ pc = "start"
  /\ Idle

(* A call parse_trn(trn_file) on a file of up to MaxLines lines.           *)
InitParse ==
  /\ file \in ParseFiles
  /\ num_workers = 1
  /\ pc = "parse_call"
  /\ Idle

-----------------------------------------------------------------------------
(* parse_trn called on its own *)

CallParseTrn ==
  /\ pc = "parse_call"
  /\ trn_ids' = parse_trn(file)
  /\ pc' = "parse_returned"
  /\ UNCHANGED <<file, num_workers, index, i, futures, out_dir, cpos, returned, overtaken>>

-----------------------------------------------------------------------------
(* build_from_path: the main process *)

TaskIndex_Incremented(n) == n + 1

TaskIndex(n) == n

NextIndex_Stuck(n) == n

NextIndex(n) == n + 1

(* The task bound by partial(_process_utterance, out_dir, index, wav_file, *)
(* pinyin), queued in the executor.                                        *)
Task(n, wav_file, pinyin) ==
  [index |-> n, wav_file |-> wav_file, pinyin |-> pinyin,
   pc |-> "queued", n_frames |-> 0, result |-> Pending]

Start ==
  /\ pc = "start"
  /\ futures' = <<>>
  /\ index' = 1
  /\ trn_ids' = parse_trn(file)
  /\ i' = 1
  /\ pc' = "submit"
  /\ UNCHANGED <<file, num_workers, out_dir, cpos, returned, overtaken>>

Submit ==
  /\ pc = "submit"
  /\ i <= Len(trn_ids)
  /\ LET idx      == trn_ids[i][1]
         pinyin   == trn_ids[i][2]
         wav_file == WavFile(idx)
     IN  futures' = Append(futures, Task(TaskIndex(index), wav_file, pinyin))
  /\ index' = NextIndex(index)
  /\ i' = i + 1
  /\ UNCHANGED <<file, pc, num_workers, trn_ids, out_dir, cpos, returned, overtaken>>

SubmitDone ==
  /\ pc = "submit"
  /\ i > Len(trn_ids)
  /\ pc' = "collect"
  /\ cpos' = 1
  /\ returned' = <<>>
  /\ UNCHANGED <<file, num_workers, trn_ids, index, i, futures, out_dir, overtaken>>

KeepResult_All(r) == TRUE

KeepResult(r) == r # None

(* One step of [future.result() for future in futures if future.result()   *)
(* is not None]: result() blocks until the unit has ended and re-raises    *)
(* the unit's exception.                                                   *)
Collect ==
  /\ pc = "collect"
  /\ cpos <= Len(futures)
  /\ Finished(cpos)
  /\ LET r == futures[cpos].result
     IN  IF r.kind = "exception"
         THEN /\ pc' = "raised"
              /\ UNCHANGED <<cpos, returned>>
         ELSE /\ returned' = IF KeepResult(r) THEN Append(returned, r) ELSE returned
              /\ cpos' = cpos + 1
              /\ pc' = pc
  /\ UNCHANGED <<file, num_workers, trn_ids, index, i, futures, out_dir, overtaken>>

Return ==
  /\ pc = "collect"
  /\ cpos > Len(futures)
  /\ pc' = "returned"
  /\ UNCHANGED <<file, num_workers, trn_ids, index, i, futures, out_dir, cpos, returned,
                 overtaken>>

-----------------------------------------------------------------------------
(* _process_utterance: one unit of work in a worker process *)

TooLong_OffByOne(n_frames) == n_frames > MaxFrameNum + 1

TooLong_Inclusive(n_frames) == n_frames >= MaxFrameNum

TooLong(n_frames) == n_frames > MaxFrameNum

(* The pool runs at most num_workers units at a time and hands the queued  *)
(* units to its workers in submission order.                               *)
CanStart(k) ==
  /\ k \in 1..Len(futures)
  /\ futures[k].pc = "queued"
  /\ \A j \in 1..(k - 1) : futures[j].pc # "queued"
  /\ Cardinality({ j \in 1..Len(futures) : Running(j) }) < num_workers

Overtakes(k) == \E j \in 1..(k - 1) : ~Finished(j)

End(k, r) == [futures EXCEPT ![k].pc = "ended", ![k].result = r]

(* audio.load_wav (or a later transform) raises *)
LoadFail(k) ==
  /\ CanStart(k)
  /\ futures' = End(k, Raised("load"))
  /\ UNCHANGED <<file, pc, num_workers, trn_ids, index, i, out_dir, cpos, returned>>
  /\ overtaken' = (overtaken \/ Overtakes(k))

(* load, rescale, trim, spectrogram, and the frame limit *)
Spectrogram(k, n) ==
  /\ CanStart(k)
  /\ futures' = IF TooLong(n)
                THEN [End(k, None) EXCEPT ![k].n_frames = n]
                ELSE [futures EXCEPT ![k].pc = "save_spec", ![k].n_frames = n]
  /\ overtaken' = (overtaken \/ (TooLong(n) /\ Overtakes(k)))
  /\ UNCHANGED <<file, pc, num_workers, trn_ids, index, i, out_dir, cpos, returned>>

Written(k, name) == [name |-> name, writer |-> k]

SaveSpec(k) ==
  /\ k \in 1..Len(futures)
  /\ futures[k].pc = "save_spec"
  /\ out_dir' = out_dir \cup {Written(k, SpecName(futures[k].index))}
  /\ futures' = [futures EXCEPT ![k].pc = "save_mel"]
  /\ UNCHANGED <<file, pc, num_workers, trn_ids, index, i, cpos, returned, overtaken>>

(* np.save raises: before creating the file, or after (a truncated file)   *)
SaveSpecFail(k, created) ==
  /\ k \in 1..Len(futures)
  /\ futures[k].pc = "save_spec"
  /\ out_dir' = IF created THEN out_dir \cup {Written(k, SpecName(futures[k].index))}
                ELSE out_dir
  /\ futures' = End(k, Raised("save_spec"))
  /\ UNCHANGED <<file, pc, num_workers, trn_ids, index, i, cpos, returned>>
  /\ overtaken' = (overtaken \/ Overtakes(k))

SaveMel(k) ==
  /\ k \in 1..Len(futures)
  /\ futures[k].pc = "save_mel"
  /\ out_dir' = out_dir \cup {Written(k, MelName(futures[k].index))}
  /\ futures' = End(k, Record(SpecName(futures[k].index), MelName(futures[k].index),
                              futures[k].n_frames, futures[k].pinyin))
  /\ UNCHANGED <<file, pc, num_workers, trn_ids, index, i, cpos, returned>>
  /\ overtaken' = (overtaken \/ Overtakes(k))

SaveMelFail(k, created) ==
  /\ k \in 1..Len(futures)
  /\ futures[k].pc = "save_mel"
  /\ out_dir' = IF created THEN out_dir \cup {Written(k, MelName(futures[k].index))}
                ELSE out_dir
  /\ futures' = End(k, Raised("save_mel"))
  /\ UNCHANGED <<file, pc, num_workers, trn_ids, index, i, cpos, returned>>
  /\ overtaken' = (overtaken \/ Overtakes(k))

-----------------------------------------------------------------------------
(* Specifications *)

Units == 1..MaxUtts

Next ==
  \/ Start
  \/ Submit
  \/ SubmitDone
  \/ Collect
  \/ Return
  \/ \E k \in Units : LoadFail(k)
  \/ \E k \in Units, n \in Frames : Spectrogram(k, n)
  \/ \E k \in Units : SaveSpec(k)
  \/ \E k \in Units, created \in BOOLEAN : SaveSpecFail(k, created)
  \/ \E k \in Units : SaveMel(k)
  \/ \E k \in Units, created \in BOOLEAN : SaveMelFail(k, created)

Spec == Init /\ [][Next]_vars

NextParse == CallParseTrn

SpecParse == InitParse /\ [][NextParse]_vars

-----------------------------------------------------------------------------
(* Vocabulary of the properties, stated independently of the code's        *)
(* operators                                                               *)

Blank(c) == c \in {"SP", "TAB", "NL"}

Solid(s) == { j \in 1..Len(s) : ~Blank(s[j]) }

Least(S) == CHOOSE x \in S : \A y \in S : x <= y

Greatest(S) == CHOOSE x \in S : \A y \in S : x >= y

(* s without its leading and trailing whitespace *)
Trimmed(s) ==
  IF Solid(s) = {} THEN <<>> ELSE SubSeq(s, Least(Solid(s)), Greatest(Solid(s)))

Tabs(s) == { j \in 1..Len(s) : s[j] = "TAB" }

(* the text of s before its first tab (all of s when it has none) *)
BeforeFirstTab(s) ==
  IF Tabs(s) = {} THEN s ELSE SubSeq(s, 1, Least(Tabs(s)) - 1)

LineOrEmpty(f, p) == IF p <= Len(f) THEN f[p] ELSE <<>>

IdPositions(f) == { p \in 1..Len(f) : p % 2 = 1 }

(* N id/pronunciation line pairs, every id line non-blank and with a tab *)
WellFormed(f) ==
  /\ Len(f) % 2 = 0
  /\ \A p \in IdPositions(f) : Trimmed(f[p]) # <<>> /\ Tabs(f[p]) # {}

(* an id line without a pronunciation line after it, or without a tab *)
Malformed(f) ==
  \E p \in IdPositions(f) :
    /\ Trimmed(f[p]) # <<>>
    /\ (p = Len(f) \/ Tabs(f[p]) = {})

(* the number of id lines before the first blank id position or the end *)
PairsBeforeStop(f) ==
  Cardinality({ p \in IdPositions(f) :
                  \A q \in IdPositions(f) : q <= p => Trimmed(f[q]) # <<>> })

ParseReturned == pc = "parse_returned"

IsRecord(k) == futures[k].result.kind = "record"

Skipped(k) == futures[k].result = None

Failed(k) == futures[k].result.kind = "exception"

WrittenBy(k) == { w \in out_dir : w.writer = k }

Submitted == 1..Len(futures)

-----------------------------------------------------------------------------
(* C1: the list build_from_path returns holds the records of the           *)
(* non-skipped utterances in submission order, whatever the order in which *)
(* the units ended, and holds no None.                                     *)
C1_SubmissionOrder ==
  pc = "returned" =>
    /\ \A a \in 1..Len(returned) : returned[a].kind = "record"
    /\ \A k \in Submitted :
         IsRecord(k) => \E a \in 1..Len(returned) : returned[a] = futures[k].result
    /\ \A a, b \in 1..Len(returned) :
         a < b => \E j, k \in Submitted :
                    /\ j < k
                    /\ returned[a] = futures[j].result
                    /\ returned[b] = futures[k].result

C1_Witness ==
  /\ pc = "returned"
  /\ overtaken
  /\ Len(returned) >= 2
  /\ \E k \in Submitted : Skipped(k)

(* C2: the k-th parsed utterance gets index k, the running index is one    *)
(* more than the number of units submitted, and on return the indices in   *)
(* the file names of out_dir are those of the utterances not skipped.      *)
C2_SequentialIndex ==
  /\ \A k \in Submitted :
       /\ futures[k].index = k
       /\ futures[k].wav_file = WavFile(trn_ids[k][1])
       /\ futures[k].pinyin = trn_ids[k][2]
  /\ pc \in {"submit", "collect", "returned", "raised"} => index = Len(futures) + 1
  /\ pc = "returned" =>
       \A k \in Submitted :
         /\ Skipped(k) => ~Exists(SpecName(k)) /\ ~Exists(MelName(k))
         /\ ~Skipped(k) => Exists(SpecName(k)) /\ Exists(MelName(k))

C2_Witness ==
  /\ pc = "returned"
  /\ Len(futures) = 3
  /\ ~Skipped(1) /\ Skipped(2) /\ ~Skipped(3)
  /\ Exists(SpecName(3)) /\ ~Exists(SpecName(2))

(* C3: a unit whose spectrogram has more than max_frame_num frames ends    *)
(* with None and writes no file: neither file of its index exists.         *)
C3_SkipLaw ==
  \A k \in Submitted :
    futures[k].n_frames > MaxFrameNum =>
      /\ futures[k].result = None
      /\ futures[k].pc = "ended"
      /\ WrittenBy(k) = {}
      /\ ~Exists(SpecName(futures[k].index))
      /\ ~Exists(MelName(futures[k].index))

C3_Witness ==
  \E k \in Submitted :
    /\ futures[k].n_frames = MaxFrameNum + 1
    /\ futures[k].pc = "ended"
    /\ out_dir # {}

(* C4: a unit that has ended has either written both files and returned a *)
(* record, or written no file and returned no record.                      *)
C4_AllOrNothing ==
  \A k \in Submitted :
    futures[k].pc = "ended" =>
      \/ /\ IsRecord(k)
         /\ { w.name : w \in WrittenBy(k) } =
              { SpecName(futures[k].index), MelName(futures[k].index) }
      \/ /\ ~IsRecord(k)
         /\ WrittenBy(k) = {}

(* C5: for a well-formed file of N pairs parse_trn returns N entries, the  *)
(* k-th being [k-th id line before its first tab, k-th pronunciation line  *)
(* trimmed].                                                               *)
C5_WellFormedParse ==
  (ParseReturned /\ WellFormed(file)) =>
    /\ Len(trn_ids) = Len(file) \div 2
    /\ \A k \in 1..Len(trn_ids) :
         trn_ids[k] = <<BeforeFirstTab(file[2 * k - 1]), Trimmed(file[2 * k])>>

(* C5 as amended: the identifier is cut from the id line after the line    *)
(* has been trimmed of surrounding whitespace.                             *)
C5_WellFormedParseTrimmed ==
  (ParseReturned /\ WellFormed(file)) =>
    /\ Len(trn_ids) = Len(file) \div 2
    /\ \A k \in 1..Len(trn_ids) :
         trn_ids[k] = <<BeforeFirstTab(Trimmed(file[2 * k - 1])), Trimmed(file[2 * k])>>

C5_Witness ==
  /\ ParseReturned
  /\ WellFormed(file)
  /\ Len(trn_ids) = 2
  /\ trn_ids[1] # trn_ids[2]
  /\ \E k \in 1..2 : file[2 * k - 1] # Trimmed(file[2 * k - 1])

(* C6: a unit that raises does not keep build_from_path from returning the *)
(* records of the other utterances.                                        *)
C6_FailureIsolated ==
  (pc \in {"returned", "raised"} /\ \E k \in Submitted : Failed(k)) =>
    /\ pc = "returned"
    /\ \A k \in Submitted :
         IsRecord(k) => \E a \in 1..Len(returned) : returned[a] = futures[k].result

(* C7: parse_trn returns no list for a malformed file (it raises a parsing *)
(* error instead).                                                         *)
C7_MalformedRejected == Malformed(file) => ~ParseReturned

(* C8: no file of out_dir is written by two units; the unit with index k   *)
(* writes only the spec and mel file of k, and the names of distinct       *)
(* indices differ.                                                         *)
IndexSamples == {1, 9, 10, 99999, 100000}

C8_NoWriteCollision ==
  /\ \A v, w \in out_dir : v.name = w.name => v.writer = w.writer
  /\ \A w \in out_dir :
       w.name \in { SpecName(futures[w.writer].index), MelName(futures[w.writer].index) }
  /\ \A j, k \in Submitted :
       /\ SpecName(futures[j].index) # MelName(futures[k].index)
       /\ j # k => /\ SpecName(futures[j].index) # SpecName(futures[k].index)
                   /\ MelName(futures[j].index) # MelName(futures[k].index)
  /\ \A k \in Submitted :
       SpecName(k) = <<"biaobei48000-spec-", "0", "0", "0", "0", DigitChar(k), ".npy">>
  \* the format itself does not depend on the state: checked once per run
  /\ pc = "start" =>
       \A j, k \in IndexSamples :
         /\ Len(Format05d(j)) >= 5
         /\ j # k => SpecName(j) # SpecName(k) /\ MelName(j) # MelName(k)

C8_Witness ==
  /\ num_workers >= 2
  /\ \E j, k \in Submitted :
       /\ j # k
       /\ futures[j].pc = "save_mel"
       /\ futures[k].pc = "save_mel"
       /\ WrittenBy(j) # {}
       /\ WrittenBy(k) # {}

(* C9: parse_trn returns one entry per id line before the first id         *)
(* position that is blank after trimming (or the end of the file) and      *)
(* nothing after it; a blank pronunciation line gives an entry with an     *)
(* empty pronunciation.                                                    *)
C9_StopAtBlankId ==
  ParseReturned =>
    /\ Len(trn_ids) = PairsBeforeStop(file)
    /\ \A k \in 1..Len(trn_ids) :
         /\ trn_ids[k][1] = BeforeFirstTab(Trimmed(file[2 * k - 1]))
         /\ trn_ids[k][2] = Trimmed(LineOrEmpty(file, 2 * k))

C9_Witness ==
  /\ ParseReturned
  /\ Len(trn_ids) = 1
  /\ trn_ids[1][2] = <<>>
  /\ Len(file) = 5
  /\ Trimmed(file[2]) = <<>>
  /\ Trimmed(file[3]) = <<>>
  /\ Trimmed(file[5]) # <<>>

(* C10: on return each record names the spec and mel file of one index k,  *)
(* both exist, its pronunciation is that of the k-th utterance, its frame  *)
(* count is at most max_frame_num (a count equal to it is not skipped),    *)
(* and there are as many records as utterances not skipped.                *)
C10_RecordsConsistent ==
  pc = "returned" =>
    /\ \A a \in 1..Len(returned) :
         \E k \in 1..Len(trn_ids) :
           /\ returned[a].spec = SpecName(k)
           /\ returned[a].mel = MelName(k)
           /\ Exists(returned[a].spec)
           /\ Exists(returned[a].mel)
           /\ returned[a].pinyin = Trimmed(file[2 * k])
           /\ returned[a].n_frames = futures[k].n_frames
           /\ returned[a].n_frames <= MaxFrameNum
    /\ \A k \in Submitted : futures[k].n_frames = MaxFrameNum => IsRecord(k)
    /\ Len(returned) = Len(trn_ids) - Cardinality({ k \in Submitted : Skipped(k) })

C10_Witness ==
  /\ pc = "returned"
  /\ Len(returned) = 2
  /\ Len(trn_ids) = 3
  /\ \E a \in 1..2 : returned[a].n_frames = MaxFrameNum
  /\ \E k \in Submitted : Skipped(k)

=============================================================================
